---- MODULE Spec2Model ----
(***************************************************************************)
(* Verification model of the shuttle example application                   *)
(* (packages/shuttle/src/example-app/app.ts) and of the components it      *)
(* drives: the backfill orchestrator, the stream consumer with the event   *)
(* processor and the store, and the message reconciliation engine.         *)
(***************************************************************************)
EXTENDS Integers, Sequences, FiniteSets, TLC

VARIABLES
    \* ---- backfill orchestrator (App.backfillFids) ----
    MAX_FID,        \* env.ts MAX_FID: undefined, or a sequence of characters
    hubClient,      \* hubSubscriber.hubClient is initialized
    now,            \* Date.now()
    backfillQueue,  \* the task queue: sequence of tasks
    bfPc,           \* position of the backfillFids call
    fids,           \* argument fids of the current call
    startedAt,      \* const startedAt of the current call
    maxFid,         \* let maxFid of the current call ([nan, val])
    bfInfo,         \* outcome of hubClient.getInfo in the current call
    bfStarts,       \* batch starts still to enqueue (const fids, line 287)
    bfError,        \* the error the current call threw
    queueAtStart,   \* the queue when the current call began
    bfCalls,        \* number of backfillFids calls made
    \* ---- relational store ----
    messages,       \* messages table: rows [fid, hash, type, removed]
    casts,          \* casts table: rows [fid, hash, deleted], in insert order
    onchain_events, \* onchain_events table: rows [chainId, txHash, logIndex], in insert order
    hubEvents,      \* bookkeeping table: ids of the Hub events applied
    lastIsNew,      \* the isNew flags of the last event applied, in call order
    applyCount,     \* number of event transactions committed
    \* ---- durable stream and stream consumer ----
    stream,         \* the shard's stream: entry i holds stream[i]
    checkpoint,     \* persisted id of the last processed entry (0: none)
    cState,         \* consumer: "stopped", "idle", "awaiting", "backoff"
    batch,          \* entry ids read from the stream and not yet handled
    cur,            \* entry id the handler was last invoked for (0: none)
    inflight,       \* entry ids whose processHubEvent has not settled
    procResult,     \* how processHubEvent settled for cur
    skippedEntries, \* entries the handler flagged skipped
    invoked,        \* entry ids the handler was ever invoked for
    handled,        \* entry ids whose processHubEvent ever succeeded
    crashes,        \* consumer crashes so far
    faults,         \* store write failures so far
    received,       \* the Hub events the subscriber received, in order
    \* ---- shard configuration (App.create) ----
    totalShards,    \* env.ts TOTAL_SHARDS
    shardIndex,     \* env.ts SHARD_INDEX
    \* ---- start-up and shutdown (App.start, App.stop) ----
    appPc,          \* position of the App.start call
    migrated,       \* the store migrations have completed successfully
    hubSubscriber,  \* subscriber: "created", "started", "stopped"
    \* ---- message reconciliation (App.reconcileFids) ----
    hubMessages,    \* the Hub's authoritative message set
    rPc,            \* position of the reconcile task
    rFids,          \* the fids of the task
    rIdx,           \* index in rFids of the fid being reconciled
    rHub,           \* the Hub's messages of the fid, as fetched
    rDb,            \* the store's messages of the fid, as fetched
    rHubTodo,       \* Hub messages the Hub pass has still to visit
    rDbTodo,        \* store messages the store pass has still to report
    onHubMessageCalls, \* the onHubMessage calls of the current fid
    onDbMessageCalls,  \* the onDbMessage calls of the current fid
    rTasks,         \* reconcile tasks run
    missingMessageCalls, \* the handleMissingMessage calls of the current fid
    \* ---- username-proof reconciliation ----
    usernames,      \* usernames table of the fid: rows in result order
    hubProofsOfFid, \* the proofs the Hub holds for the fid, in result order
    pArgs,          \* arguments of the reconcileUsernameProofsForFid call
    pPc,            \* position of the call
    pTypes,         \* proof types the loop of line 53 has still to process
    proofType,      \* the proof type being reconciled
    startDate,      \* let startDate (Unix ms, or undefined)
    stopDate,       \* let stopDate (Unix ms, or undefined)
    hubProofs,      \* const hubProofs of the current type, still to report
    dbProofsByKey,  \* the latest-wins map, entries in insertion order
    hubProofsByKey, \* keys of the Hub proofs processed
    dbTodo,         \* entries of dbProofsByKey still to report
    onHubProofCalls,\* the onHubProof calls of the run, in order
    onDbProofCalls, \* the onDbProof calls of the run, in order
    inCallback,     \* callbacks in flight
    pFetched,       \* Hub result sets of the run, filtered, per type
    pQueried,       \* store result sets of the run, per type
    pError,         \* the error the call threw
    pLogged         \* the call logged an invalid time range

backfillVars == <<MAX_FID, hubClient, now, backfillQueue, bfPc, fids, startedAt,
                  maxFid, bfInfo, bfStarts, bfError, queueAtStart, bfCalls>>

storeVars == <<messages, casts, onchain_events, hubEvents, lastIsNew, applyCount>>

streamVars == <<stream, checkpoint, cState, batch, cur, inflight, procResult,
                skippedEntries, invoked, handled, crashes, faults, received>>

configVars == <<totalShards, shardIndex>>

appVars == <<appPc, migrated, hubSubscriber>>

reconVars == <<hubMessages, rPc, rFids, rIdx, rHub, rDb, rHubTodo, rDbTodo,
               onHubMessageCalls, onDbMessageCalls, rTasks, missingMessageCalls>>

proofVars == <<usernames, hubProofsOfFid, pArgs, pPc, pTypes, proofType, startDate,
               stopDate, hubProofs, dbProofsByKey, hubProofsByKey, dbTodo,
               onHubProofCalls, onDbProofCalls, inCallback, pFetched, pQueried,
               pError, pLogged>>

notBackfillVars == <<storeVars, streamVars, configVars, appVars, reconVars, proofVars>>
notStreamVars == <<backfillVars, configVars, appVars, reconVars, proofVars>>
notProofVars == <<backfillVars, storeVars, streamVars, configVars, appVars, reconVars>>
notAppVars == <<backfillVars, storeVars, streamVars, configVars, reconVars, proofVars>>

vars == <<backfillVars, storeVars, streamVars, configVars, appVars, reconVars, proofVars>>

-----------------------------------------------------------------------------
(* Bounds *)
MaxHubFid == 25      \* largest numFidEvents the Hub reports
MaxFidArg == 2       \* largest fid in a non-empty fids argument
MaxFidsLen == 2      \* longest non-empty fids argument
MaxClock == 1        \* largest value of Date.now()
MaxCalls == 1        \* number of backfillFids calls
MaxEntries == 3      \* entries appended to the stream
BatchLimit == 2      \* entries the consumer reads at once
MaxCrashes == 1      \* consumer crashes
MaxFaults == 1       \* store write failures
MaxApplied == 2      \* Hub events applied beside a reconciliation
MaxTasks == 1        \* reconcile tasks
MaxReceived == 4     \* Hub events the subscriber receives
MaxShards == 2       \* largest TOTAL_SHARDS and SHARD_INDEX
MaxHubProofs == 2    \* proofs the Hub holds for the fid
MaxStoreRows == 2    \* rows the usernames table holds for the fid

-----------------------------------------------------------------------------
(* JavaScript numbers and parseInt *)

Num(v) == [nan |-> FALSE, val |-> v]
NaN == [nan |-> TRUE, val |-> 0]

\* !n for a number-or-undefined n: NaN, 0 and undefined are falsy
Truthy(n) == ~n.nan /\ n.val # 0

DigitChars == {"0", "1", "2", "3", "4", "5", "6", "7", "8", "9"}

DigitVal(c) ==
    CASE c = "0" -> 0 [] c = "1" -> 1 [] c = "2" -> 2 [] c = "3" -> 3
      [] c = "4" -> 4 [] c = "5" -> 5 [] c = "6" -> 6 [] c = "7" -> 7
      [] c = "8" -> 8 [] c = "9" -> 9

RECURSIVE SkipSpaces(_)
SkipSpaces(s) ==
    IF s # <<>> /\ Head(s) = " " THEN SkipSpaces(Tail(s)) ELSE s

\* the longest prefix of s made of decimal digits
RECURSIVE DigitPrefix(_)
DigitPrefix(s) ==
    IF s # <<>> /\ Head(s) \in DigitChars
        THEN <<Head(s)>> \o DigitPrefix(Tail(s))
        ELSE <<>>

RECURSIVE DigitsValue(_, _)
DigitsValue(s, acc) ==
    IF s = <<>> THEN acc ELSE DigitsValue(Tail(s), acc * 10 + DigitVal(Head(s)))

\* parseInt(string) without radix, for strings with no "0x" prefix: leading
\* white space is skipped, an optional sign is read, then the longest run of
\* digits; no digit gives NaN
ParseInt(str) ==
    LET s == SkipSpaces(str)
        signed == s # <<>> /\ Head(s) \in {"-", "+"}
        neg == s # <<>> /\ Head(s) = "-"
        body == IF signed THEN Tail(s) ELSE s
        digits == DigitPrefix(body)
    IN  IF digits = <<>> THEN NaN
        ELSE Num((IF neg THEN -1 ELSE 1) * DigitsValue(digits, 0))

Range(s) == {s[i] : i \in 1..Len(s)}

\* Math.min
Min(a, b) == IF a < b THEN a ELSE b

\* Math.ceil(a / b) for b > 0
Ceil(a, b) == -((-a) \div b)

-----------------------------------------------------------------------------
(* Backfill orchestrator: App.backfillFids *)

\* values of process.env["MAX_FID"] the model starts from
EnvString(str) == [defined |-> TRUE, str |-> str]
EnvUndefined == [defined |-> FALSE, str |-> <<>>]

EnvMaxFidValues ==
    {EnvUndefined} \cup
    {EnvString(s) : s \in {<<>>, <<"0">>, <<"a">>, <<"7">>, <<"2", "5">>,
                           <<"3", "a">>, <<"-", "4">>, <<" ", "1", "2">>}}

\* non-empty fids arguments
RECURSIVE SeqsUpTo(_, _)
SeqsUpTo(S, n) ==
    IF n = 0 THEN {<<>>}
    ELSE LET shorter == SeqsUpTo(S, n - 1)
         IN  shorter \cup {Append(s, x) : s \in shorter, x \in S}

FidsArgs == SeqsUpTo(1..MaxFidArg, MaxFidsLen)

\* results of hubClient.getInfo: an error, or dbStats.numFidEvents
InfoErr == [isErr |-> TRUE, numFidEvents |-> NaN]
InfoOk(n) == [isErr |-> FALSE, numFidEvents |-> n]
InfoResults == {InfoErr, InfoOk(NaN)} \cup {InfoOk(Num(n)) : n \in 0..MaxHubFid}

batchSize == 10

ReconcileTask(f) == [name |-> "reconcile", fids |-> f, startedAt |-> -1]
MarkerTask(t) == [name |-> "completionMarker", fids |-> <<>>, startedAt |-> t]

\* line 287: Array.from({length: ceil(maxFid / batchSize)}, (_, i) => i * batchSize)
\*           .map((fid) => fid + 1); a negative length gives the empty array
BatchStarts(mf) ==
    LET n == IF mf.nan THEN 0 ELSE Ceil(mf.val, batchSize)
    IN  [i \in 1..(IF n > 0 THEN n ELSE 0) |-> (i - 1) * batchSize + 1]

\* line 289: Array.from({length: batchSize}, (_, i) => start + i)
Subset(start) == [i \in 1..batchSize |-> start + (i - 1)]

\* line 270: MAX_FID ? parseInt(MAX_FID) : undefined
ConfiguredMaxFid ==
    IF ~MAX_FID.defined \/ MAX_FID.str = <<>> THEN NaN ELSE ParseInt(MAX_FID.str)

BackfillInit ==
    /\ MAX_FID \in EnvMaxFidValues
    /\ hubClient \in BOOLEAN
    /\ now = 0
    /\ backfillQueue = <<>>
    /\ bfPc = "idle"
    /\ fids = <<>>
    /\ startedAt = 0
    /\ maxFid = NaN
    /\ bfInfo = "none"
    /\ bfStarts = <<>>
    /\ bfError = "none"
    /\ queueAtStart = <<>>
    /\ bfCalls = 0

Tick ==
    /\ now < MaxClock
    /\ now' = now + 1
    /\ UNCHANGED <<MAX_FID, hubClient, backfillQueue, bfPc, fids, startedAt,
                   maxFid, bfInfo, bfStarts, bfError, queueAtStart, bfCalls>>
    /\ UNCHANGED notBackfillVars

\* lines 263-271, 284-288, 292: entry of backfillFids up to its first await
BackfillFids(f) ==
    /\ bfPc \in {"idle", "done", "failed"}
    /\ bfCalls < MaxCalls
    /\ bfCalls' = bfCalls + 1
    /\ fids' = f
    /\ startedAt' = now
    /\ queueAtStart' = backfillQueue
    /\ bfInfo' = "none"
    /\ IF ~hubClient
         THEN /\ bfPc' = "failed"
              /\ bfError' = "Hub client is not initialized"
              /\ maxFid' = NaN
              /\ bfStarts' = <<>>
         ELSE IF Len(f) = 0
           THEN /\ maxFid' = ConfiguredMaxFid
                /\ bfError' = "none"
                /\ IF ~Truthy(ConfiguredMaxFid)
                     THEN /\ bfPc' = "getInfo"
                          /\ bfStarts' = <<>>
                     ELSE /\ bfStarts' = BatchStarts(ConfiguredMaxFid)
                          /\ bfPc' = IF BatchStarts(ConfiguredMaxFid) = <<>>
                                       THEN "marker" ELSE "batches"
           ELSE /\ maxFid' = NaN
                /\ bfError' = "none"
                /\ bfStarts' = <<>>
                /\ bfPc' = "fids"
    /\ UNCHANGED <<MAX_FID, hubClient, now, backfillQueue>>
    /\ UNCHANGED notBackfillVars

\* lines 272-288: the getInfo call resolves
BackfillGetInfo_NoMaxFidCheck(res) ==
    /\ bfPc = "getInfo"
    /\ IF res.isErr
         THEN /\ bfInfo' = "err"
              /\ bfPc' = "failed"
              /\ bfError' = "getInfoResult.error"
              /\ UNCHANGED <<maxFid, bfStarts>>
         ELSE LET mf == res.numFidEvents
              IN  /\ bfInfo' = IF Truthy(mf) THEN "ok" ELSE "nomax"
                  /\ maxFid' = mf
                  /\ bfError' = "none"
                  /\ bfStarts' = BatchStarts(mf)
                  /\ bfPc' = IF BatchStarts(mf) = <<>> THEN "marker" ELSE "batches"
    /\ UNCHANGED <<MAX_FID, hubClient, now, backfillQueue, fids, startedAt,
                   queueAtStart, bfCalls>>
    /\ UNCHANGED notBackfillVars

BackfillGetInfo(res) ==
    /\ bfPc = "getInfo"
    /\ IF res.isErr
         THEN /\ bfInfo' = "err"
              /\ bfPc' = "failed"
              /\ bfError' = "getInfoResult.error"
              /\ UNCHANGED <<maxFid, bfStarts>>
         ELSE LET mf == res.numFidEvents
              IN  /\ maxFid' = mf
                  /\ IF ~Truthy(mf)
                       THEN /\ bfInfo' = "nomax"
                            /\ bfPc' = "failed"
                            /\ bfError' = "Failed to get max fid"
                            /\ bfStarts' = <<>>
                       ELSE /\ bfInfo' = "ok"
                            /\ bfError' = "none"
                            /\ bfStarts' = BatchStarts(mf)
                            /\ bfPc' = "batches"
    /\ UNCHANGED <<MAX_FID, hubClient, now, backfillQueue, fids, startedAt,
                   queueAtStart, bfCalls>>
    /\ UNCHANGED notBackfillVars

\* lines 288-291: one iteration of the loop over the batch starts
BackfillAddBatch ==
    /\ bfPc = "batches"
    /\ backfillQueue' = Append(backfillQueue, ReconcileTask(Subset(Head(bfStarts))))
    /\ bfStarts' = Tail(bfStarts)
    /\ bfPc' = IF Tail(bfStarts) = <<>> THEN "marker" ELSE "batches"
    /\ UNCHANGED <<MAX_FID, hubClient, now, fids, startedAt, maxFid, bfInfo,
                   bfError, queueAtStart, bfCalls>>
    /\ UNCHANGED notBackfillVars

\* line 293: a non-empty fids argument is enqueued as it is
BackfillAddFids_FirstOnly ==
    /\ bfPc = "fids"
    /\ backfillQueue' = Append(backfillQueue, ReconcileTask(<<Head(fids)>>))
    /\ bfPc' = "marker"
    /\ UNCHANGED <<MAX_FID, hubClient, now, fids, startedAt, maxFid, bfInfo,
                   bfStarts, bfError, queueAtStart, bfCalls>>
    /\ UNCHANGED notBackfillVars

BackfillAddFids ==
    /\ bfPc = "fids"
    /\ backfillQueue' = Append(backfillQueue, ReconcileTask(fids))
    /\ bfPc' = "marker"
    /\ UNCHANGED <<MAX_FID, hubClient, now, fids, startedAt, maxFid, bfInfo,
                   bfStarts, bfError, queueAtStart, bfCalls>>
    /\ UNCHANGED notBackfillVars

\* line 295 with the clock read at the time the marker is enqueued
BackfillAddMarker_StampsNow ==
    /\ bfPc = "marker"
    /\ backfillQueue' = Append(backfillQueue, MarkerTask(now))
    /\ bfPc' = "done"
    /\ UNCHANGED <<MAX_FID, hubClient, now, fids, startedAt, maxFid, bfInfo,
                   bfStarts, bfError, queueAtStart, bfCalls>>
    /\ UNCHANGED notBackfillVars

\* line 295: the completion marker
BackfillAddMarker ==
    /\ bfPc = "marker"
    /\ backfillQueue' = Append(backfillQueue, MarkerTask(startedAt))
    /\ bfPc' = "done"
    /\ UNCHANGED <<MAX_FID, hubClient, now, fids, startedAt, maxFid, bfInfo,
                   bfStarts, bfError, queueAtStart, bfCalls>>
    /\ UNCHANGED notBackfillVars

\* lines 290, 293, 295: backfillQueue.add rejects and the call throws
BackfillAddRejects ==
    /\ bfPc \in {"batches", "fids", "marker"}
    /\ bfPc' = "failed"
    /\ bfError' = "backfillQueue.add"
    /\ UNCHANGED <<MAX_FID, hubClient, now, backfillQueue, fids, startedAt,
                   maxFid, bfInfo, bfStarts, queueAtStart, bfCalls>>
    /\ UNCHANGED notBackfillVars

BackfillNext ==
    \/ Tick
    \/ \E f \in FidsArgs : BackfillFids(f)
    \/ \E res \in InfoResults : BackfillGetInfo(res)
    \/ BackfillAddBatch
    \/ BackfillAddFids
    \/ BackfillAddMarker
    \/ BackfillAddRejects

\* the tasks the current call has enqueued
Enqueued == SubSeq(backfillQueue, Len(queueAtStart) + 1, Len(backfillQueue))

-----------------------------------------------------------------------------
(* Hub messages and events *)

NoMessage == [fid |-> 0, hash |-> "", type |-> ""]
NoOnChainEvent ==
    [chainId |-> 0, transactionHash |-> "", logIndex |-> 0, body |-> "", fid |-> 0]

CastAdd1 == [fid |-> 1, hash |-> "h1", type |-> "CastAdd"]
CastRemove1 == [fid |-> 1, hash |-> "h2", type |-> "CastRemove"]
Reaction1 == [fid |-> 1, hash |-> "h4", type |-> "ReactionAdd"]
Reaction2 == [fid |-> 2, hash |-> "h3", type |-> "ReactionAdd"]

Messages == {CastAdd1, CastRemove1, Reaction1, Reaction2}

MergeMessage(id, m, deleted) ==
    [id |-> id, type |-> "MERGE_MESSAGE", message |-> m, deletedMessages |-> deleted,
     onChainEvent |-> NoOnChainEvent]
PruneMessage(id, m) ==
    [id |-> id, type |-> "PRUNE_MESSAGE", message |-> m, deletedMessages |-> <<>>,
     onChainEvent |-> NoOnChainEvent]
RevokeMessage(id, m) ==
    [id |-> id, type |-> "REVOKE_MESSAGE", message |-> m, deletedMessages |-> <<>>,
     onChainEvent |-> NoOnChainEvent]
MergeOnChainEvent(id, oc) ==
    [id |-> id, type |-> "MERGE_ON_CHAIN_EVENT", message |-> NoMessage,
     deletedMessages |-> <<>>, onChainEvent |-> oc]

IdRegister1 == [chainId |-> 10, transactionHash |-> "tx1", logIndex |-> 0,
                body |-> "idRegisterEventBody", fid |-> 1]
Unknown2 == [chainId |-> 10, transactionHash |-> "tx2", logIndex |-> 0, body |-> "none",
             fid |-> 2]

\* the Hub events the subscriber can receive
HubEvents ==
    {MergeMessage(1, CastAdd1, <<>>),
     MergeMessage(2, CastRemove1, <<CastAdd1>>),
     RevokeMessage(3, CastAdd1),
     MergeOnChainEvent(4, IdRegister1),
     MergeOnChainEvent(5, Unknown2),
     PruneMessage(6, Reaction2)}

\* the fid a Hub event is about
EventFid(event) ==
    IF event.type = "MERGE_ON_CHAIN_EVENT" THEN event.onChainEvent.fid
                                           ELSE event.message.fid

\* the Hub emits one event for each of the fids 1..4
ShardMessage(fid) == [fid |-> fid, hash |-> "s", type |-> "ReactionAdd"]
ShardEvents == {MergeMessage(10 + fid, ShardMessage(fid), <<>>) : fid \in 1..4}

-----------------------------------------------------------------------------
(* Relational store and event processor *)

MessageRows(rows, m) == {r \in rows : r.fid = m.fid /\ r.hash = m.hash}

MessageRow(m, how) ==
    [fid |-> m.fid, hash |-> m.hash, type |-> m.type,
     removed |-> IF how = "merge" THEN "none" ELSE how]

\* the row state of section 3: created until removed
RowState(r) == IF r.removed = "none" THEN "created" ELSE "deleted"

\* storeMessage: upsert of the message row keyed by (fid, hash); how is
\* "merge", "delete", "prune" or "revoke". isNew tells whether the row was
\* inserted or moved from created to deleted
StoreMessage(rows, m, how) ==
    LET old == MessageRows(rows, m)
    IN  IF old = {}
          THEN [rows |-> rows \cup {MessageRow(m, how)}, isNew |-> TRUE]
        ELSE IF how # "merge" /\ \E r \in old : r.removed = "none"
          THEN [rows |-> (rows \ old) \cup {[r EXCEPT !.removed = how] : r \in old},
                isNew |-> TRUE]
        ELSE [rows |-> rows, isNew |-> FALSE]

StoreOperation(how) == IF how = "merge" THEN "merge" ELSE "delete"

\* the state handed to the handler: a delete, or the merge of a remove message
\* (app.ts lines 189-191), gives "deleted"
GetMessageState(m, operation) ==
    IF operation = "delete" \/ m.type = "CastRemove" THEN "deleted" ELSE "created"

IsCastMessage(m) == m.type \in {"CastAdd", "CastRemove"}

\* handleMessageMerge without the isNew guard of lines 181-184
HandleMessageMerge_NoIsNewGuard(c, message, operation, state, isNew, wasMissed) ==
    IF IsCastMessage(message) /\ state = "created"
      THEN Append(c, [fid |-> message.fid, hash |-> message.hash, deleted |-> FALSE])
    ELSE IF IsCastMessage(message) /\ state = "deleted"
      THEN [i \in DOMAIN c |->
              IF c[i].hash = message.hash THEN [c[i] EXCEPT !.deleted = TRUE] ELSE c[i]]
    ELSE c

\* App.handleMessageMerge: the casts table after the call
HandleMessageMerge(c, message, operation, state, isNew, wasMissed) ==
    IF ~isNew THEN c
    ELSE IF IsCastMessage(message) /\ state = "created"
      THEN Append(c, [fid |-> message.fid, hash |-> message.hash, deleted |-> FALSE])
    ELSE IF IsCastMessage(message) /\ state = "deleted"
      THEN [i \in DOMAIN c |->
              IF c[i].hash = message.hash THEN [c[i] EXCEPT !.deleted = TRUE] ELSE c[i]]
    ELSE c

\* App.handleMessageMerge issues a store statement (lines 194-210)
HandlerWrites(message, isNew) == isNew /\ IsCastMessage(message)

\* one message of an event: storeMessage, then the handler, on the
\* transaction's view st = [messages, casts, isNews, writes]
ProcessMessage(st, m, how, wasMissed) ==
    LET r == StoreMessage(st.messages, m, how)
        operation == StoreOperation(how)
        state == GetMessageState(m, operation)
    IN  [messages |-> r.rows,
         casts |-> HandleMessageMerge(st.casts, m, operation, state, r.isNew, wasMissed),
         isNews |-> Append(st.isNews, r.isNew),
         writes |-> st.writes \/ HandlerWrites(m, r.isNew)]

RECURSIVE ProcessDeleted(_, _, _)
ProcessDeleted(st, deleted, wasMissed) ==
    IF deleted = <<>> THEN st
    ELSE ProcessDeleted(ProcessMessage(st, Head(deleted), "delete", wasMissed),
                        Tail(deleted), wasMissed)

\* merge of a message with the messages it deletes
ProcessMergeMessage(st, m, deleted, wasMissed) ==
    ProcessMessage(ProcessDeleted(st, deleted, wasMissed), m, "merge", wasMissed)

OnChainRow(oc) ==
    [chainId |-> oc.chainId, txHash |-> oc.transactionHash, logIndex |-> oc.logIndex]

RecognisedBodies ==
    {"idRegisterEventBody", "signerEventBody", "storageRentEventBody",
     "signerMigratedEventBody"}

\* insert into onchain_events, a table keyed by (chainId, txHash, logIndex)
InsertOnChainEvent(rows, row, fails) ==
    IF fails \/ row \in Range(rows)
      THEN [ok |-> FALSE, rows |-> rows]
      ELSE [ok |-> TRUE, rows |-> Append(rows, row)]

\* App.onHubEvent: the onchain_events table after the call; the insert's error
\* is caught and logged (lines 165-167) and the call returns false
OnHubEvent(rows, event, insertFails) ==
    IF event.type = "MERGE_ON_CHAIN_EVENT"
         /\ event.onChainEvent.body \in RecognisedBodies
      THEN InsertOnChainEvent(rows, OnChainRow(event.onChainEvent), insertFails).rows
      ELSE rows

\* App.onHubEvent issues a store statement (line 149)
OnHubEventWrites(event) ==
    event.type = "MERGE_ON_CHAIN_EVENT" /\ event.onChainEvent.body \in RecognisedBodies

TxnStart == [messages |-> messages, casts |-> casts, isNews |-> <<>>, writes |-> FALSE]

\* HubEventProcessor.processHubEvent, the message part of its transaction
ProcessMessageEvent(event) ==
    IF event.type = "MERGE_MESSAGE"
      THEN ProcessMergeMessage(TxnStart, event.message, event.deletedMessages, FALSE)
    ELSE IF event.type = "PRUNE_MESSAGE"
      THEN ProcessMessage(TxnStart, event.message, "prune", FALSE)
    ELSE IF event.type = "REVOKE_MESSAGE"
      THEN ProcessMessage(TxnStart, event.message, "revoke", FALSE)
    ELSE TxnStart

\* a store write of the application handler is reached in this transaction
HandlerWritesIn(event) == OnHubEventWrites(event) \/ ProcessMessageEvent(event).writes

\* the transaction rejects: a write of the processor fails, or a write of
\* handleMessageMerge fails (it is not caught)
TxnRejects(event, fault) ==
    \/ fault = "processor"
    \/ fault = "handler" /\ ProcessMessageEvent(event).writes

\* the store after HubEventProcessor.processHubEvent(db, event, handler) settled
\* with the given fault: all of the transaction, or nothing
ApplyHubEvent(event, fault) ==
    IF TxnRejects(event, fault)
      THEN UNCHANGED storeVars
      ELSE /\ messages' = ProcessMessageEvent(event).messages
           /\ casts' = ProcessMessageEvent(event).casts
           /\ onchain_events' = OnHubEvent(onchain_events, event, fault = "handler")
           /\ hubEvents' = hubEvents \cup {event.id}
           /\ lastIsNew' = ProcessMessageEvent(event).isNews
           /\ applyCount' = applyCount + 1

Faults == {"none", "processor", "handler"}

StoreInit ==
    /\ messages = {}
    /\ casts = <<>>
    /\ onchain_events = <<>>
    /\ hubEvents = {}
    /\ lastIsNew = <<>>
    /\ applyCount = 0

-----------------------------------------------------------------------------
(* Durable stream, event subscriber and stream consumer *)

StreamInit ==
    /\ stream = <<>>
    /\ checkpoint = 0
    /\ cState = "stopped"
    /\ batch = <<>>
    /\ cur = 0
    /\ inflight = {}
    /\ procResult = "none"
    /\ skippedEntries = {}
    /\ invoked = {}
    /\ handled = {}
    /\ crashes = 0
    /\ faults = 0
    /\ received = <<>>

\* line 99 with the shard index used in both modes
ShardKey_AlwaysIndex(total, index) == ToString(index)

\* const shardKey of App.create (line 99)
ShardKey(total, index) == IF total = 0 THEN "all" ELSE ToString(index)

\* the stream key the subscriber appends under (lines 100-111) and the one the
\* consumer reads (line 112)
SubscriberKey == ShardKey(totalShards, shardIndex)
ConsumerKey == ShardKey(totalShards, shardIndex)

\* shard ownership of section 3: unsharded mode owns every fid, otherwise the
\* fid belongs to shard fid mod totalShards
OwnsShard(fid) == totalShards = 0 \/ fid % totalShards = shardIndex

\* the subscriber receives a Hub event and appends it to the stream of its
\* shard when it owns the event's fid
SubscriberAppend(event) ==
    /\ hubSubscriber = "started"
    /\ Len(stream) < MaxEntries
    /\ Len(received) < MaxReceived
    /\ received' = Append(received, event)
    /\ stream' = IF OwnsShard(EventFid(event)) THEN Append(stream, event) ELSE stream
    /\ UNCHANGED <<checkpoint, cState, batch, cur, inflight, procResult,
                   skippedEntries, invoked, handled, crashes, faults>>
    /\ UNCHANGED <<storeVars, notStreamVars>>

\* streamConsumer.start (line 228), also after a crash
ConsumerStart ==
    /\ appPc = "consumer"
    /\ cState = "stopped"
    /\ cState' = "idle"
    /\ UNCHANGED <<stream, checkpoint, batch, cur, inflight, procResult,
                   skippedEntries, invoked, handled, crashes, faults>>
    /\ UNCHANGED <<storeVars, notStreamVars, received>>

\* the entry ids strictly after the checkpoint, at most BatchLimit of them
ReadAfter(last) ==
    LET n == Min(Len(stream) - last, BatchLimit)
    IN  [i \in 1..n |-> last + i]

\* a consumer that resumes after the last entry it applied, committed or not
ConsumerRead_AfterLastHandled ==
    /\ cState = "idle"
    /\ batch = <<>>
    /\ Len(stream) > checkpoint
    /\ batch' = ReadAfter(CHOOSE k \in handled \cup {checkpoint} :
                              \A j \in handled \cup {checkpoint} : j <= k)
    /\ UNCHANGED <<stream, checkpoint, cState, cur, inflight, procResult,
                   skippedEntries, invoked, handled, crashes, faults>>
    /\ UNCHANGED <<storeVars, notStreamVars, received>>

\* the consumer reads a batch strictly after the persisted checkpoint
ConsumerRead ==
    /\ cState = "idle"
    /\ batch = <<>>
    /\ Len(stream) > checkpoint
    /\ batch' = ReadAfter(checkpoint)
    /\ UNCHANGED <<stream, checkpoint, cState, cur, inflight, procResult,
                   skippedEntries, invoked, handled, crashes, faults>>
    /\ UNCHANGED <<storeVars, notStreamVars, received>>

\* the consumer invokes the handler for the next entry of the batch: the
\* handler calls processHubEvent (line 229)
ConsumerInvoke ==
    /\ cState = "idle"
    /\ batch # <<>>
    /\ cur' = Head(batch)
    /\ batch' = Tail(batch)
    /\ inflight' = inflight \cup {Head(batch)}
    /\ invoked' = invoked \cup {Head(batch)}
    /\ procResult' = "none"
    /\ cState' = "awaiting"
    /\ UNCHANGED <<stream, checkpoint, skippedEntries, handled, crashes, faults>>
    /\ UNCHANGED <<storeVars, notStreamVars, received>>

\* HubEventProcessor.processHubEvent settles for entry i
ProcessHubEvent(i, fault) ==
    /\ i \in inflight
    /\ fault # "none" => faults < MaxFaults
    /\ fault = "handler" => HandlerWritesIn(stream[i])
    /\ ApplyHubEvent(stream[i], fault)
    /\ inflight' = inflight \ {i}
    /\ faults' = IF fault = "none" THEN faults ELSE faults + 1
    /\ handled' = IF TxnRejects(stream[i], fault) THEN handled ELSE handled \cup {i}
    /\ procResult' = IF i = cur /\ cState = "awaiting"
                       THEN (IF TxnRejects(stream[i], fault) THEN "err" ELSE "ok")
                       ELSE procResult
    /\ UNCHANGED <<stream, checkpoint, cState, batch, cur, skippedEntries, invoked,
                   crashes>>
    /\ UNCHANGED <<notStreamVars, received>>

\* the handler of lines 228-231 that does not await processHubEvent
StreamHandler_NoAwait(processing, result) == "ok"

\* the handler of lines 228-231: pending while processHubEvent runs, rejected
\* when it throws, ok({ skipped: false }) otherwise
StreamHandler(processing, result) ==
    IF processing THEN "pending"
    ELSE IF result = "ok" THEN "ok" ELSE "rejected"

\* line 230: the skipped flag of the handler's result
HandlerSkipped == FALSE

\* the handler resolved: the checkpoint advances to the entry
ConsumerAdvance ==
    /\ cState = "awaiting"
    /\ StreamHandler(cur \in inflight, procResult) = "ok"
    /\ checkpoint' = cur
    /\ skippedEntries' = IF HandlerSkipped THEN skippedEntries \cup {cur}
                                           ELSE skippedEntries
    /\ cState' = "idle"
    /\ UNCHANGED <<stream, batch, cur, inflight, procResult, invoked, handled,
                   crashes, faults>>
    /\ UNCHANGED <<storeVars, notStreamVars, received>>

\* the handler failed: the checkpoint stays and the consumer backs off
ConsumerBackoff ==
    /\ cState = "awaiting"
    /\ StreamHandler(cur \in inflight, procResult) = "rejected"
    /\ cState' = "backoff"
    /\ UNCHANGED <<stream, checkpoint, batch, cur, inflight, procResult,
                   skippedEntries, invoked, handled, crashes, faults>>
    /\ UNCHANGED <<storeVars, notStreamVars, received>>

\* after the backoff the same entry is handled again
ConsumerRetry ==
    /\ cState = "backoff"
    /\ inflight' = inflight \cup {cur}
    /\ procResult' = "none"
    /\ cState' = "awaiting"
    /\ UNCHANGED <<stream, checkpoint, batch, cur, skippedEntries, invoked, handled,
                   crashes, faults>>
    /\ UNCHANGED <<storeVars, notStreamVars, received>>

\* the consumer process crashes: open transactions roll back, what it held in
\* memory is lost, the stream, the checkpoint and the store stay
ConsumerCrash ==
    /\ cState # "stopped"
    /\ crashes < MaxCrashes
    /\ crashes' = crashes + 1
    /\ cState' = "stopped"
    /\ batch' = <<>>
    /\ cur' = 0
    /\ inflight' = {}
    /\ procResult' = "none"
    /\ UNCHANGED <<stream, checkpoint, skippedEntries, invoked, handled, faults>>
    /\ UNCHANGED <<storeVars, notStreamVars, received>>

\* the start command of a sharded deployment: the Hub emits the events of
\* fids 1..4, no failure
ShardNext ==
    \/ \E event \in ShardEvents : SubscriberAppend(event)
    \/ ConsumerStart
    \/ ConsumerRead
    \/ ConsumerInvoke
    \/ \E i \in 1..MaxEntries : ProcessHubEvent(i, "none")
    \/ ConsumerAdvance

StreamNext ==
    \/ \E event \in HubEvents : SubscriberAppend(event)
    \/ ConsumerStart
    \/ ConsumerRead
    \/ ConsumerInvoke
    \/ \E i \in 1..MaxEntries : \E fault \in Faults : ProcessHubEvent(i, fault)
    \/ ConsumerAdvance
    \/ ConsumerBackoff
    \/ ConsumerRetry
    \/ ConsumerCrash

-----------------------------------------------------------------------------
(* Start-up and shutdown: App.start, App.ensureMigrations, App.stop *)

\* the App is constructed and start has not been called
AppCreated == appPc = "created" /\ migrated = FALSE /\ hubSubscriber = "created"

\* App.start has reached the start of the stream consumer (line 228)
AppStarted == appPc = "consumer" /\ migrated = TRUE /\ hubSubscriber = "started"

\* the outcomes of migrateToLatest (db.ts lines 24-49) and of an awaited start
StartResults == {"ok", "err"}

\* the start command calls App.start (line 322)
AppStart ==
    /\ appPc = "created"
    /\ appPc' = "migrating"
    /\ UNCHANGED <<migrated, hubSubscriber>>
    /\ UNCHANGED notAppVars

\* lines 303-309 with the error of the migration only logged
EnsureMigrations_IgnoresError(result) ==
    /\ appPc = "migrating"
    /\ migrated' = (result = "ok")
    /\ appPc' = "startSubscriber"
    /\ UNCHANGED hubSubscriber
    /\ UNCHANGED notAppVars

\* ensureMigrations (lines 303-309), awaited at line 218: the error of the
\* migration is thrown and leaves start
EnsureMigrations(result) ==
    /\ appPc = "migrating"
    /\ migrated' = (result = "ok")
    /\ appPc' = IF result = "ok" THEN "startSubscriber" ELSE "failed"
    /\ UNCHANGED hubSubscriber
    /\ UNCHANGED notAppVars

\* line 221: hubSubscriber.start is awaited; its rejection leaves start
HubSubscriberStart(result) ==
    /\ appPc = "startSubscriber"
    /\ hubSubscriber = "created"
    /\ hubSubscriber' = IF result = "ok" THEN "started" ELSE hubSubscriber
    /\ appPc' = IF result = "ok" THEN "sleep" ELSE "failed"
    /\ UNCHANGED migrated
    /\ UNCHANGED notAppVars

\* line 224: the sleep that lets the subscriber create the stream is over
AppSleepDone ==
    /\ appPc = "sleep"
    /\ appPc' = "consumer"
    /\ UNCHANGED <<migrated, hubSubscriber>>
    /\ UNCHANGED notAppVars

\* App.stop (lines 311-315): the subscriber is stopped and the last processed
\* event id is read and logged
AppStop ==
    /\ hubSubscriber = "started"
    /\ hubSubscriber' = "stopped"
    /\ UNCHANGED <<appPc, migrated>>
    /\ UNCHANGED notAppVars

\* the start command: App.start, the subscriber and the consumer, App.stop
AppNext ==
    \/ AppStart
    \/ \E result \in StartResults : EnsureMigrations(result)
    \/ \E result \in StartResults : HubSubscriberStart(result)
    \/ AppSleepDone
    \/ AppStop
    \/ \E event \in HubEvents : SubscriberAppend(event)
    \/ ConsumerStart
    \/ ConsumerRead
    \/ ConsumerInvoke
    \/ \E i \in 1..MaxEntries : ProcessHubEvent(i, "none")
    \/ ConsumerAdvance

-----------------------------------------------------------------------------
(* Message reconciliation: App.reconcileFids over MessageReconciliation *)

HubOf(fid) == {m \in hubMessages : m.fid = fid}
DbOf(fid) == {r \in messages : r.fid = fid}

MessageKey(m) == <<m.fid, m.hash>>
Keys(S) == {MessageKey(x) : x \in S}

\* the fid lists of a reconcile task
FidBatches == {<<1>>, <<2>>, <<1, 2>>, <<2, 1>>}

ReconcileInit ==
    /\ hubMessages \in SUBSET Messages
    /\ rPc = "idle"
    /\ rFids = <<>>
    /\ rIdx = 0
    /\ rHub = {}
    /\ rDb = {}
    /\ rHubTodo = {}
    /\ rDbTodo = {}
    /\ onHubMessageCalls = <<>>
    /\ onDbMessageCalls = <<>>
    /\ rTasks = 0
    /\ missingMessageCalls = <<>>

\* no reconcile task is given
ReconcileIdle ==
    /\ ReconcileInit
    /\ hubMessages = {}

\* the streaming path commits the transaction of a Hub event while the
\* reconciliation runs
StreamApplies(event) ==
    /\ applyCount < MaxApplied
    /\ ApplyHubEvent(event, "none")
    /\ UNCHANGED <<reconVars, streamVars, backfillVars, configVars, appVars, proofVars>>

\* lines 234-243: the worker runs a reconcile task on its fids
ReconcileFids(batchFids) ==
    /\ rPc \in {"idle", "failed"}
    /\ rTasks < MaxTasks
    /\ rTasks' = rTasks + 1
    /\ rFids' = batchFids
    /\ rIdx' = 1
    /\ rPc' = "fetch"
    /\ UNCHANGED <<hubMessages, rHub, rDb, rHubTodo, rDbTodo, onHubMessageCalls,
                   onDbMessageCalls, missingMessageCalls>>
    /\ UNCHANGED <<storeVars, streamVars, backfillVars, configVars, appVars, proofVars>>

\* reconcileMessagesForFid fetches the Hub's message set of the fid and the
\* store's copy
ReconcileFetch ==
    /\ rPc = "fetch"
    /\ rHub' = HubOf(rFids[rIdx])
    /\ rDb' = DbOf(rFids[rIdx])
    /\ rHubTodo' = HubOf(rFids[rIdx])
    /\ rDbTodo' = {r \in DbOf(rFids[rIdx]) : MessageKey(r) \notin Keys(HubOf(rFids[rIdx]))}
    /\ onHubMessageCalls' = <<>>
    /\ onDbMessageCalls' = <<>>
    /\ missingMessageCalls' = <<>>
    /\ rPc' = "hubPass"
    /\ UNCHANGED <<hubMessages, rFids, rIdx, rTasks>>
    /\ UNCHANGED <<storeVars, streamVars, backfillVars, configVars, appVars, proofVars>>

\* the Hub fetch fails: the error surfaces to reconcileFids, which has no
\* handler for it (lines 243-260)
ReconcileFetchFails ==
    /\ rPc = "fetch"
    /\ rPc' = "failed"
    /\ UNCHANGED <<hubMessages, rFids, rIdx, rHub, rDb, rHubTodo, rDbTodo,
                   onHubMessageCalls, onDbMessageCalls, rTasks, missingMessageCalls>>
    /\ UNCHANGED <<storeVars, streamVars, backfillVars, configVars, appVars, proofVars>>

\* the flags of a Hub message against the store's copy, without the check
\* for a missing row
HubMessageFlags_NeverMissing(m, db) ==
    [message |-> m,
     missingInDb |-> FALSE,
     prunedInDb |-> \E r \in MessageRows(db, m) : r.removed = "prune",
     revokedInDb |-> \E r \in MessageRows(db, m) : r.removed = "revoke"]

\* the flags reconcileMessagesForFid passes to onHubMessage for a Hub message
HubMessageFlags(m, db) ==
    [message |-> m,
     missingInDb |-> MessageRows(db, m) = {},
     prunedInDb |-> \E r \in MessageRows(db, m) : r.removed = "prune",
     revokedInDb |-> \E r \in MessageRows(db, m) : r.removed = "revoke"]

\* HubEventProcessor.handleMissingMessage(db, message, handler): the message is
\* merged in one transaction with wasMissed = true
HandleMissingMessage(m) ==
    LET st == ProcessMergeMessage(TxnStart, m, <<>>, TRUE)
    IN  /\ messages' = st.messages
        /\ casts' = st.casts
        /\ lastIsNew' = st.isNews
        /\ missingMessageCalls' =
               Append(missingMessageCalls, [message |-> m, wasMissed |-> TRUE])
        /\ UNCHANGED <<onchain_events, hubEvents, applyCount>>

\* the onHubMessage callback repairing every message the Hub holds
OnHubMessage_RepairsAll(call) == HandleMissingMessage(call.message)

\* lines 246-253, the onHubMessage callback of reconcileFids
OnHubMessage(call) ==
    IF call.missingInDb
      THEN HandleMissingMessage(call.message)
      ELSE UNCHANGED <<storeVars, missingMessageCalls>>

\* the Hub pass of reconcileMessagesForFid: one Hub message
ReconcileHubMessage(m) ==
    /\ rPc = "hubPass"
    /\ m \in rHubTodo
    /\ rHubTodo' = rHubTodo \ {m}
    /\ onHubMessageCalls' = Append(onHubMessageCalls, HubMessageFlags(m, rDb))
    /\ OnHubMessage(HubMessageFlags(m, rDb))
    /\ UNCHANGED <<hubMessages, rPc, rFids, rIdx, rHub, rDb, rDbTodo,
                   onDbMessageCalls, rTasks>>
    /\ UNCHANGED <<streamVars, backfillVars, configVars, appVars, proofVars>>

\* the Hub pass is over
ReconcileHubPassDone ==
    /\ rPc = "hubPass"
    /\ rHubTodo = {}
    /\ rPc' = "dbPass"
    /\ UNCHANGED <<hubMessages, rFids, rIdx, rHub, rDb, rHubTodo, rDbTodo,
                   onHubMessageCalls, onDbMessageCalls, rTasks, missingMessageCalls>>
    /\ UNCHANGED <<storeVars, streamVars, backfillVars, configVars, appVars, proofVars>>

\* the store pass: a store message never seen in the Hub set; the onDbMessage
\* callback of lines 254-258 only logs
ReconcileDbMessage(r) ==
    /\ rPc = "dbPass"
    /\ r \in rDbTodo
    /\ rDbTodo' = rDbTodo \ {r}
    /\ onDbMessageCalls' = Append(onDbMessageCalls, [message |-> r, missingInHub |-> TRUE])
    /\ UNCHANGED <<hubMessages, rPc, rFids, rIdx, rHub, rDb, rHubTodo,
                   onHubMessageCalls, rTasks, missingMessageCalls>>
    /\ UNCHANGED <<storeVars, streamVars, backfillVars, configVars, appVars, proofVars>>

\* reconcileMessagesForFid returns
ReconcileReturn ==
    /\ rPc = "dbPass"
    /\ rDbTodo = {}
    /\ rPc' = "returned"
    /\ UNCHANGED <<hubMessages, rFids, rIdx, rHub, rDb, rHubTodo, rDbTodo,
                   onHubMessageCalls, onDbMessageCalls, rTasks, missingMessageCalls>>
    /\ UNCHANGED <<storeVars, streamVars, backfillVars, configVars, appVars, proofVars>>

\* line 243: the loop goes to the next fid, or the task ends
ReconcileNextFid ==
    /\ rPc = "returned"
    /\ IF rIdx < Len(rFids)
         THEN rIdx' = rIdx + 1 /\ rPc' = "fetch"
         ELSE rIdx' = rIdx /\ rPc' = "idle"
    /\ UNCHANGED <<hubMessages, rFids, rHub, rDb, rHubTodo, rDbTodo,
                   onHubMessageCalls, onDbMessageCalls, rTasks, missingMessageCalls>>
    /\ UNCHANGED <<storeVars, streamVars, backfillVars, configVars, appVars, proofVars>>

ReconcileNext ==
    \/ \E event \in HubEvents : StreamApplies(event)
    \/ \E batchFids \in FidBatches : ReconcileFids(batchFids)
    \/ ReconcileFetch
    \/ ReconcileFetchFails
    \/ \E m \in Messages : ReconcileHubMessage(m)
    \/ ReconcileHubPassDone
    \/ \E r \in rDbTodo : ReconcileDbMessage(r)
    \/ ReconcileReturn
    \/ ReconcileNextFid

-----------------------------------------------------------------------------
(* Username-proof reconciliation: UsernameProofReconciliation *)

USERNAME_TYPE_FNAME == "USERNAME_TYPE_FNAME"
USERNAME_TYPE_ENS_L1 == "USERNAME_TYPE_ENS_L1"

\* an optional number: a value, or undefined
Some(v) == [defined |-> TRUE, val |-> v]
Undefined == [defined |-> FALSE, val |-> 0]

\* if (t) for an optional number: undefined and 0 are falsy
TruthyTime(t) == t.defined /\ t.val # 0

\* the Farcaster epoch in Unix milliseconds and the largest Farcaster time
\* that converts, both scaled down: one second after the Unix epoch, 3 seconds
FARCASTER_EPOCH == 1000
MaxFarcasterTime == 3

\* fromFarcasterTime: Farcaster seconds to Unix milliseconds, or an error
FromFarcasterTime(time) ==
    IF time > MaxFarcasterTime
      THEN [isErr |-> TRUE, value |-> 0]
      ELSE [isErr |-> FALSE, value |-> time * 1000 + FARCASTER_EPOCH]

\* the fid whose proofs are reconciled
ProofFid == 1

UserNameProof(name, owner, type, timestamp) ==
    [name |-> name, owner |-> owner, fid |-> ProofFid, type |-> type,
     timestamp |-> timestamp]

\* the proofs the Hub can hold for the fid
HubProofSet ==
    {UserNameProof("a", "o1", USERNAME_TYPE_FNAME, 2),
     UserNameProof("b", "o1", USERNAME_TYPE_ENS_L1, 2),
     UserNameProof("a", "o2", USERNAME_TYPE_FNAME, 3)}

UsernameRow(username, custodyAddress, proofTimestamp) ==
    [username |-> username, fid |-> ProofFid, proofTimestamp |-> proofTimestamp,
     custodyAddress |-> custodyAddress]

\* the live rows the usernames table can hold for the fid; proofTimestamp is
\* in Unix milliseconds
UsernameRowSet ==
    {UsernameRow("a", "o1", 2000),
     UsernameRow("a", "o1", 0),
     UsernameRow("a", "o1", 3000),
     UsernameRow("b", "o1", 2500)}

\* the sequences without repetition of at most n elements of S
DistinctSeqs(S, n) ==
    {s \in SeqsUpTo(S, n) : \A i \in 1..Len(s) : \A j \in 1..Len(s) : s[i] = s[j] => i = j}

\* arguments of reconcileUsernameProofsForFid (lines 23-30)
StartTimestamps == {Undefined, Some(0), Some(1), Some(MaxFarcasterTime + 1)}
StopTimestamps == {Undefined, Some(2), Some(MaxFarcasterTime + 1)}
TypesArgs == {[defined |-> FALSE, list |-> <<>>],
              [defined |-> TRUE, list |-> <<USERNAME_TYPE_ENS_L1>>]}

ProofArgs ==
    [startTimestamp : StartTimestamps, stopTimestamp : StopTimestamps,
     types : TypesArgs, onDbProof : BOOLEAN]

\* line 53: types ?? [fname, ens]
DefaultTypes == <<USERNAME_TYPE_FNAME, USERNAME_TYPE_ENS_L1>>
TypesOf(args) == IF args.types.defined THEN args.types.list ELSE DefaultTypes

ProofsInit ==
    /\ usernames \in DistinctSeqs(UsernameRowSet, MaxStoreRows)
    /\ hubProofsOfFid \in DistinctSeqs(HubProofSet, MaxHubProofs)
    /\ pArgs \in ProofArgs
    /\ pPc = "idle"
    /\ pTypes = <<>>
    /\ proofType = ""
    /\ startDate = Undefined
    /\ stopDate = Undefined
    /\ hubProofs = <<>>
    /\ dbProofsByKey = <<>>
    /\ hubProofsByKey = {}
    /\ dbTodo = <<>>
    /\ onHubProofCalls = <<>>
    /\ onDbProofCalls = <<>>
    /\ inCallback = 0
    /\ pFetched = <<>>
    /\ pQueried = <<>>
    /\ pError = "none"
    /\ pLogged = FALSE

\* no username-proof reconciliation is asked for
ProofsIdle ==
    /\ ProofsInit
    /\ usernames = <<>>
    /\ hubProofsOfFid = <<>>
    /\ pArgs = [startTimestamp |-> Undefined, stopTimestamp |-> Undefined,
                types |-> [defined |-> FALSE, list |-> <<>>], onDbProof |-> TRUE]

\* lines 32-40 and 42-51: the Date of a bound, undefined when the bound is
\* falsy; invalid when fromFarcasterTime fails
BoundDate(timestamp) ==
    IF ~TruthyTime(timestamp) THEN [invalid |-> FALSE, date |-> Undefined]
    ELSE IF FromFarcasterTime(timestamp.val).isErr
      THEN [invalid |-> TRUE, date |-> Undefined]
    ELSE [invalid |-> FALSE, date |-> Some(FromFarcasterTime(timestamp.val).value)]

\* lines 23-52 without the returns of lines 36 and 47: an unconvertible bound
\* is left undefined
ReconcileUsernameProofsForFid_NoReturn ==
    /\ pPc = "idle"
    /\ pLogged' = (BoundDate(pArgs.startTimestamp).invalid
                     \/ BoundDate(pArgs.stopTimestamp).invalid)
    /\ startDate' = BoundDate(pArgs.startTimestamp).date
    /\ stopDate' = BoundDate(pArgs.stopTimestamp).date
    /\ pTypes' = TypesOf(pArgs)
    /\ pPc' = "loop"
    /\ UNCHANGED <<usernames, hubProofsOfFid, pArgs, proofType, hubProofs,
                   dbProofsByKey, hubProofsByKey, dbTodo, onHubProofCalls,
                   onDbProofCalls, inCallback, pFetched, pQueried, pError>>
    /\ UNCHANGED notProofVars

\* reconcileUsernameProofsForFid, lines 23-52: the bounds are converted; an
\* invalid range is logged and the call returns
ReconcileUsernameProofsForFid ==
    /\ pPc = "idle"
    /\ IF BoundDate(pArgs.startTimestamp).invalid
         THEN /\ pLogged' = TRUE
              /\ pPc' = "returned"
              /\ UNCHANGED <<startDate, stopDate, pTypes>>
       ELSE IF BoundDate(pArgs.stopTimestamp).invalid
         THEN /\ pLogged' = TRUE
              /\ pPc' = "returned"
              /\ startDate' = BoundDate(pArgs.startTimestamp).date
              /\ UNCHANGED <<stopDate, pTypes>>
       ELSE /\ startDate' = BoundDate(pArgs.startTimestamp).date
            /\ stopDate' = BoundDate(pArgs.stopTimestamp).date
            /\ pTypes' = TypesOf(pArgs)
            /\ pPc' = "loop"
            /\ UNCHANGED pLogged
    /\ UNCHANGED <<usernames, hubProofsOfFid, pArgs, proofType, hubProofs,
                   dbProofsByKey, hubProofsByKey, dbTodo, onHubProofCalls,
                   onDbProofCalls, inCallback, pFetched, pQueried, pError>>
    /\ UNCHANGED notProofVars

\* lines 53-56: the loop over the proof types
NextProofType ==
    /\ pPc = "loop"
    /\ IF pTypes = <<>>
         THEN pPc' = "returned" /\ UNCHANGED <<proofType, pTypes>>
         ELSE /\ proofType' = Head(pTypes)
              /\ pTypes' = Tail(pTypes)
              /\ pPc' = "fetchHub"
    /\ UNCHANGED <<usernames, hubProofsOfFid, pArgs, startDate, stopDate, hubProofs,
                   dbProofsByKey, hubProofsByKey, dbTodo, onHubProofCalls,
                   onDbProofCalls, inCallback, pFetched, pQueried, pError, pLogged>>
    /\ UNCHANGED notProofVars

\* lines 134-140: the time filter of the Hub side
HubTimeFilter(proof, start, stop) ==
    /\ ~(start.defined /\ proof.timestamp * 1000 < start.val)
    /\ ~(stop.defined /\ proof.timestamp * 1000 > stop.val)

\* getProofsFromHub, lines 128-142: the proofs of the type within the range
FilterHubProofs(proofs, type, start, stop) ==
    LET OfType(proof) == proof.type = type
        InRange(proof) == HubTimeFilter(proof, start, stop)
    IN  SelectSeq(SelectSeq(proofs, OfType), InRange)

\* lines 155-163: the where clauses of the store query
DbTimeFilter(row, start, stop) ==
    /\ row.fid = ProofFid
    /\ start.defined => row.proofTimestamp > start.val
    /\ stop.defined => row.proofTimestamp < stop.val

\* lines 167-174 with the row mapped to type ens
RowToProof_Ens(row) ==
    [name |-> row.username, owner |-> row.custodyAddress, fid |-> row.fid,
     type |-> USERNAME_TYPE_ENS_L1, timestamp |-> row.proofTimestamp \div 1000]

\* lines 167-174: a row of the usernames table as a proof
RowToProof(row) ==
    [name |-> row.username, owner |-> row.custodyAddress, fid |-> row.fid,
     type |-> USERNAME_TYPE_FNAME, timestamp |-> row.proofTimestamp \div 1000]

\* getProofsFromDb, lines 152-177
QueryDbProofs(rows, type, start, stop) ==
    LET Selected(row) == DbTimeFilter(row, start, stop)
        selected == SelectSeq(rows, Selected)
        proofs == [i \in 1..Len(selected) |-> RowToProof(selected[i])]
        OfType(proof) == proof.type = type
    IN  SelectSeq(proofs, OfType)

\* a proof key that also holds the timestamp
GetProofKey_WithTimestamp(proof) ==
    <<proof.name, proof.fid, proof.owner, proof.type, proof.timestamp>>

\* getProofKey, lines 183-188: name, fid, owner and type, joined by "-"
GetProofKey(proof) == <<proof.name, proof.fid, proof.owner, proof.type>>

\* Map.get: the entry of the key, or none
MapHas(map, key) == \E i \in 1..Len(map) : map[i].key = key
MapGet(map, key) == map[CHOOSE i \in 1..Len(map) : map[i].key = key].proof

\* Map.set: the entry of an existing key is replaced in place, a new key is
\* appended
MapSet(map, key, proof) ==
    IF MapHas(map, key)
      THEN [i \in 1..Len(map) |->
               IF map[i].key = key THEN [key |-> key, proof |-> proof] ELSE map[i]]
      ELSE Append(map, [key |-> key, proof |-> proof])

\* the condition of line 94 on numbers: existingProof.timestamp is falsy at 0
Replaces(map, key, proof) ==
    \/ ~MapHas(map, key)
    \/ MapGet(map, key).timestamp # 0 /\ proof.timestamp > MapGet(map, key).timestamp

\* lines 90-97: the latest-wins map of the store proofs
RECURSIVE LatestWins(_, _)
LatestWins(map, proofs) ==
    IF proofs = <<>> THEN map
    ELSE LET proof == Head(proofs)
             key == GetProofKey(proof)
         IN  LatestWins(IF Replaces(map, key, proof) THEN MapSet(map, key, proof) ELSE map,
                        Tail(proofs))

\* lines 67-70 with a failed Hub fetch taken as an empty result
GetProofsFromHub_FailureAsEmpty(fails) ==
    /\ pPc = "fetchHub"
    /\ pFetched' = Append(pFetched, [type |-> proofType, failed |-> fails,
                                     proofs |-> IF fails THEN <<>>
                                        ELSE FilterHubProofs(hubProofsOfFid, proofType,
                                                             startDate, stopDate)])
    /\ hubProofs' = IF fails THEN <<>>
                    ELSE FilterHubProofs(hubProofsOfFid, proofType, startDate, stopDate)
    /\ pPc' = IF hubProofs' = <<>> THEN "loop" ELSE "queryDb"
    /\ UNCHANGED <<usernames, hubProofsOfFid, pArgs, pTypes, proofType, startDate,
                   stopDate, dbProofsByKey, hubProofsByKey, dbTodo, onHubProofCalls,
                   onDbProofCalls, inCallback, pQueried, pError, pLogged>>
    /\ UNCHANGED notProofVars

\* lines 67-79 over getProofsFromHub (lines 117-143): the Hub fetch; its error
\* is thrown, an empty result ends the type
GetProofsFromHub(fails) ==
    /\ pPc = "fetchHub"
    /\ pFetched' = Append(pFetched, [type |-> proofType, failed |-> fails,
                                     proofs |-> IF fails THEN <<>>
                                        ELSE FilterHubProofs(hubProofsOfFid, proofType,
                                                             startDate, stopDate)])
    /\ IF fails
         THEN /\ pError' = "Unable to get username proofs"
              /\ pPc' = "failed"
              /\ UNCHANGED hubProofs
         ELSE /\ hubProofs' = FilterHubProofs(hubProofsOfFid, proofType, startDate, stopDate)
              /\ pPc' = IF hubProofs' = <<>> THEN "loop" ELSE "queryDb"
              /\ UNCHANGED pError
    /\ UNCHANGED <<usernames, hubProofsOfFid, pArgs, pTypes, proofType, startDate,
                   stopDate, dbProofsByKey, hubProofsByKey, dbTodo, onHubProofCalls,
                   onDbProofCalls, inCallback, pQueried, pLogged>>
    /\ UNCHANGED notProofVars

\* lines 81-97 over getProofsFromDb (lines 145-181): the store query and the
\* latest-wins map; lines 87 and 90 start both maps empty
GetProofsFromDb(fails) ==
    /\ pPc = "queryDb"
    /\ IF fails
         THEN /\ pError' = "Failed to get username proofs from DB"
              /\ pPc' = "failed"
              /\ UNCHANGED <<dbProofsByKey, hubProofsByKey, pQueried>>
         ELSE /\ dbProofsByKey' =
                    LatestWins(<<>>, QueryDbProofs(usernames, proofType, startDate, stopDate))
              /\ hubProofsByKey' = {}
              /\ pQueried' = Append(pQueried,
                    [type |-> proofType,
                     proofs |-> QueryDbProofs(usernames, proofType, startDate, stopDate),
                     map |-> dbProofsByKey'])
              /\ pPc' = "hubPass"
              /\ UNCHANGED pError
    /\ UNCHANGED <<usernames, hubProofsOfFid, pArgs, pTypes, proofType, startDate,
                   stopDate, hubProofs, dbTodo, onHubProofCalls, onDbProofCalls,
                   inCallback, pFetched, pLogged>>
    /\ UNCHANGED notProofVars

\* lines 100-105 with onHubProof not awaited: the loop goes on while the
\* callback is in flight
CallOnHubProof_NotAwaited ==
    /\ pPc = "hubPass"
    /\ hubProofs # <<>>
    /\ hubProofsByKey' = hubProofsByKey \cup {GetProofKey(Head(hubProofs))}
    /\ onHubProofCalls' = Append(onHubProofCalls,
           [type |-> proofType, proof |-> Head(hubProofs),
            missingInDb |-> ~MapHas(dbProofsByKey, GetProofKey(Head(hubProofs)))])
    /\ hubProofs' = Tail(hubProofs)
    /\ inCallback' = inCallback + 1
    /\ pPc' = "hubPass"
    /\ UNCHANGED <<usernames, hubProofsOfFid, pArgs, pTypes, proofType, startDate,
                   stopDate, dbProofsByKey, dbTodo, onDbProofCalls, pFetched, pQueried,
                   pError, pLogged>>
    /\ UNCHANGED notProofVars

\* lines 100-105: the next Hub proof is recorded and onHubProof is called
CallOnHubProof ==
    /\ pPc = "hubPass"
    /\ hubProofs # <<>>
    /\ hubProofsByKey' = hubProofsByKey \cup {GetProofKey(Head(hubProofs))}
    /\ onHubProofCalls' = Append(onHubProofCalls,
           [type |-> proofType, proof |-> Head(hubProofs),
            missingInDb |-> ~MapHas(dbProofsByKey, GetProofKey(Head(hubProofs)))])
    /\ hubProofs' = Tail(hubProofs)
    /\ inCallback' = inCallback + 1
    /\ pPc' = "onHubProof"
    /\ UNCHANGED <<usernames, hubProofsOfFid, pArgs, pTypes, proofType, startDate,
                   stopDate, dbProofsByKey, dbTodo, onDbProofCalls, pFetched, pQueried,
                   pError, pLogged>>
    /\ UNCHANGED notProofVars

\* line 105: the awaited onHubProof settles; its rejection is thrown
OnHubProofSettles(fails) ==
    /\ pPc = "onHubProof"
    /\ inCallback' = inCallback - 1
    /\ pPc' = IF fails THEN "failed" ELSE "hubPass"
    /\ pError' = IF fails THEN "onHubProof" ELSE pError
    /\ UNCHANGED <<usernames, hubProofsOfFid, pArgs, pTypes, proofType, startDate,
                   stopDate, hubProofs, dbProofsByKey, hubProofsByKey, dbTodo,
                   onHubProofCalls, onDbProofCalls, pFetched, pQueried, pLogged>>
    /\ UNCHANGED notProofVars

\* lines 106-110: the Hub pass is over; the store pass runs when onDbProof is
\* supplied
HubPassDone ==
    /\ pPc = "hubPass"
    /\ hubProofs = <<>>
    /\ IF pArgs.onDbProof
         THEN dbTodo' = dbProofsByKey /\ pPc' = "dbPass"
         ELSE dbTodo' = dbTodo /\ pPc' = "loop"
    /\ UNCHANGED <<usernames, hubProofsOfFid, pArgs, pTypes, proofType, startDate,
                   stopDate, hubProofs, dbProofsByKey, hubProofsByKey, onHubProofCalls,
                   onDbProofCalls, inCallback, pFetched, pQueried, pError, pLogged>>
    /\ UNCHANGED notProofVars

\* lines 110-112: onDbProof is called for the next entry of the map
CallOnDbProof ==
    /\ pPc = "dbPass"
    /\ dbTodo # <<>>
    /\ onDbProofCalls' = Append(onDbProofCalls,
           [type |-> proofType, proof |-> Head(dbTodo).proof,
            missingInHub |-> Head(dbTodo).key \notin hubProofsByKey])
    /\ dbTodo' = Tail(dbTodo)
    /\ inCallback' = inCallback + 1
    /\ pPc' = "onDbProof"
    /\ UNCHANGED <<usernames, hubProofsOfFid, pArgs, pTypes, proofType, startDate,
                   stopDate, hubProofs, dbProofsByKey, hubProofsByKey, onHubProofCalls,
                   pFetched, pQueried, pError, pLogged>>
    /\ UNCHANGED notProofVars

\* line 112: the awaited onDbProof settles; its rejection is thrown
OnDbProofSettles(fails) ==
    /\ pPc = "onDbProof"
    /\ inCallback' = inCallback - 1
    /\ pPc' = IF fails THEN "failed" ELSE "dbPass"
    /\ pError' = IF fails THEN "onDbProof" ELSE pError
    /\ UNCHANGED <<usernames, hubProofsOfFid, pArgs, pTypes, proofType, startDate,
                   stopDate, hubProofs, dbProofsByKey, hubProofsByKey, dbTodo,
                   onHubProofCalls, onDbProofCalls, pFetched, pQueried, pLogged>>
    /\ UNCHANGED notProofVars

\* lines 113-115: the store pass is over, the type is done
DbPassDone ==
    /\ pPc = "dbPass"
    /\ dbTodo = <<>>
    /\ pPc' = "loop"
    /\ UNCHANGED <<usernames, hubProofsOfFid, pArgs, pTypes, proofType, startDate,
                   stopDate, hubProofs, dbProofsByKey, hubProofsByKey, dbTodo,
                   onHubProofCalls, onDbProofCalls, inCallback, pFetched, pQueried,
                   pError, pLogged>>
    /\ UNCHANGED notProofVars

ProofsNext ==
    \/ ReconcileUsernameProofsForFid
    \/ NextProofType
    \/ \E fails \in BOOLEAN : GetProofsFromHub(fails)
    \/ \E fails \in BOOLEAN : GetProofsFromDb(fails)
    \/ CallOnHubProof
    \/ \E fails \in BOOLEAN : OnHubProofSettles(fails)
    \/ HubPassDone
    \/ CallOnDbProof
    \/ \E fails \in BOOLEAN : OnDbProofSettles(fails)
    \/ DbPassDone

-----------------------------------------------------------------------------
(* Specifications *)

\* the backfill command has not been given: no MAX_FID, no call
BackfillIdle ==
    /\ BackfillInit
    /\ MAX_FID = EnvUndefined
    /\ hubClient = TRUE

\* env.ts lines 15-16 with SHARDS and SHARD_NUM unset
Unsharded == totalShards = 0 /\ shardIndex = 0

\* the backfill command
InitBackfill ==
    /\ BackfillInit /\ StoreInit /\ StreamInit /\ Unsharded /\ ReconcileIdle /\ ProofsIdle
    /\ AppCreated

SpecBackfill == InitBackfill /\ [][BackfillNext]_vars

Init ==
    /\ BackfillIdle /\ StoreInit /\ StreamInit /\ Unsharded /\ ReconcileIdle /\ ProofsIdle
    /\ AppStarted

\* the start command: subscriber, stream consumer, event processor and store
SpecStream == Init /\ [][StreamNext]_vars

\* the consumer loop keeps running, the store answers, and a stopped consumer
\* is started again
StreamFairness ==
    /\ WF_vars(ConsumerStart)
    /\ WF_vars(ConsumerRead)
    /\ WF_vars(ConsumerInvoke)
    /\ WF_vars(\E i \in 1..MaxEntries : \E fault \in Faults : ProcessHubEvent(i, fault))
    /\ WF_vars(ConsumerAdvance)
    /\ WF_vars(ConsumerBackoff)
    /\ WF_vars(ConsumerRetry)

FairSpecStream == SpecStream /\ StreamFairness

\* the worker command: reconcile tasks beside the streaming path
InitReconcile ==
    /\ BackfillIdle /\ StoreInit /\ StreamInit /\ Unsharded /\ ReconcileInit /\ ProofsIdle
    /\ AppStarted

SpecReconcile == InitReconcile /\ [][ReconcileNext]_vars

\* the start command with SHARDS and SHARD_NUM set
InitShard ==
    /\ BackfillIdle /\ StoreInit /\ StreamInit /\ ReconcileIdle /\ ProofsIdle
    /\ totalShards \in 0..MaxShards
    /\ shardIndex \in 0..MaxShards
    /\ AppStarted

SpecShard == InitShard /\ [][ShardNext]_vars

\* a username-proof reconciliation of one fid
InitProofs ==
    /\ BackfillIdle /\ StoreInit /\ StreamInit /\ Unsharded /\ ReconcileIdle /\ ProofsInit
    /\ AppCreated

SpecProofs == InitProofs /\ [][ProofsNext]_vars

\* the start command from the construction of the App
InitApp ==
    /\ BackfillIdle /\ StoreInit /\ StreamInit /\ Unsharded /\ ReconcileIdle /\ ProofsIdle
    /\ AppCreated

SpecApp == InitApp /\ [][AppNext]_vars

-----------------------------------------------------------------------------
(* Claims about the backfill orchestrator *)

\* the backfillFids call has returned normally from its empty-fids branch with
\* an upper bound of at least 1
BackfilledAll == bfPc = "done" /\ fids = <<>> /\ ~maxFid.nan /\ maxFid.val >= 1

\* C1: a call with an empty fid list and maxFid >= 1 enqueues ceil(maxFid/10)
\* reconcile tasks in ascending order, pairwise disjoint, whose union is
\* exactly 1..maxFid (the last batch cut at maxFid), then one completion marker
C1_BatchesPartitionUpToMaxFid ==
    BackfilledAll =>
        LET n == Ceil(maxFid.val, batchSize)
            E == Enqueued
        IN  /\ Len(E) = n + 1
            /\ \A i \in 1..n : E[i].name = "reconcile"
            /\ \A i \in 1..n : \A j \in 1..n :
                   i < j => \A a \in Range(E[i].fids) : \A b \in Range(E[j].fids) : a < b
            /\ UNION {Range(E[i].fids) : i \in 1..n} = 1..maxFid.val
            /\ E[n + 1].name = "completionMarker"

\* C2 as claimed: a call with a non-empty fid list enqueues exactly one task in
\* total, the reconcile task carrying the given fids, with no getInfo lookup
C2_Original_ExactlyOneTaskInTotal ==
    (bfPc = "done" /\ fids # <<>>) =>
        /\ Enqueued = <<ReconcileTask(fids)>>
        /\ bfInfo = "none"

\* C2 as amended: a call with a non-empty fid list enqueues exactly one
\* reconcile task, whose payload is the given fids unbatched, followed by one
\* completion marker (two tasks in total), with no getInfo lookup
C2_OneReconcileTaskThenMarker ==
    (bfPc \in {"marker", "done"} /\ fids # <<>>) =>
        /\ bfInfo = "none"
        /\ Enqueued = IF bfPc = "marker"
                        THEN <<ReconcileTask(fids)>>
                        ELSE <<ReconcileTask(fids), MarkerTask(startedAt)>>

C2_Witness == bfPc = "done" /\ Len(fids) = MaxFidsLen /\ fids[1] # fids[2]

\* the cases C3 is about: the Hub client is not initialized, or the fid list is
\* empty, MAX_FID gives no usable bound and getInfo failed or reported no max fid
NoUpperBound ==
    /\ bfPc # "idle"
    /\ \/ ~hubClient
       \/ fids = <<>> /\ ~Truthy(ConfiguredMaxFid) /\ bfInfo \in {"err", "nomax"}

\* C3: when no upper bound can be determined, or the Hub client is not
\* initialized, the call fails with an error and the queue is left as it was
C3_NoBoundFailsWithoutEnqueue ==
    NoUpperBound =>
        /\ bfPc = "failed"
        /\ bfError \in {"Hub client is not initialized", "getInfoResult.error",
                        "Failed to get max fid"}
        /\ backfillQueue = queueAtStart

C3_Witness ==
    /\ bfPc = "failed" /\ bfInfo = "nomax" /\ MAX_FID.defined /\ MAX_FID.str # <<>>
    /\ backfillQueue = queueAtStart

-----------------------------------------------------------------------------
(* Claims about the stream consumer, the event processor and the store *)

\* C4: the handler is invoked on the entries of the shard in stream order and
\* one at a time: when it has been invoked for an entry, every earlier entry
\* has been handled successfully before, and at most one entry is in flight,
\* whatever crashes and restarts happened
C4_HandlerInStreamOrder ==
    /\ Cardinality(inflight) <= 1
    /\ \A e2 \in invoked : \A e1 \in 1..(e2 - 1) : e1 \in handled

C4_Witness ==
    /\ crashes >= 1 /\ cState = "awaiting" /\ cur = 2
    /\ 1 \in handled /\ 2 \in handled /\ checkpoint = 1

\* what the store shows once an event has been applied
Reflected(event) ==
    CASE event.type = "MERGE_ON_CHAIN_EVENT" ->
           event.onChainEvent.body \in RecognisedBodies
               => OnChainRow(event.onChainEvent) \in Range(onchain_events)
      [] event.type = "MERGE_MESSAGE" ->
           /\ MessageRows(messages, event.message) # {}
           /\ \A m \in Range(event.deletedMessages) :
                  \E r \in MessageRows(messages, m) : RowState(r) = "deleted"
      [] OTHER ->
           \E r \in MessageRows(messages, event.message) : RowState(r) = "deleted"

\* C5: the persisted checkpoint is the id of an entry whose application fully
\* succeeded, or that the handler flagged skipped; a failed store write of the
\* handler path does not let the checkpoint pass the entry
C5_CheckpointOnlyPastApplied ==
    checkpoint > 0 =>
        \/ Reflected(stream[checkpoint])
        \/ checkpoint \in skippedEntries

\* C6: the consumer resumes from the committed checkpoint: the handler is only
\* ever invoked for the entry right after it, so an entry applied before a
\* crash but not yet committed is delivered again and none is skipped
C6_ResumeFromCheckpoint ==
    /\ cState \in {"awaiting", "backoff"} => cur = checkpoint + 1
    /\ (cState = "idle" /\ batch # <<>>) => Head(batch) = checkpoint + 1
    /\ \A i \in 1..Len(batch) : batch[i] = Head(batch) + (i - 1)

\* entry cur was applied, the consumer crashed before committing its
\* checkpoint, and after the restart the handler is invoked for it again
C6_Witness ==
    /\ crashes >= 1 /\ cState = "awaiting"
    /\ cur \in handled /\ cur \in inflight /\ checkpoint = cur - 1

\* C7: under fairness of the consumer loop, with finitely many failures and
\* crashes, every entry appended to the stream is eventually applied
\* successfully and the checkpoint eventually reaches its id
C7_EveryEntryEventuallyApplied ==
    \A i \in 1..MaxEntries :
        (Len(stream) >= i) ~> (checkpoint >= i /\ Reflected(stream[i]))

\* C8: applying a message event that was applied before leaves the messages
\* and casts tables as they are and reports isNew = false for each message
C8_ReapplyIsNoOp ==
    [][\A i \in inflight :
          (/\ i \notin inflight'
           /\ applyCount' = applyCount + 1
           /\ stream[i].type = "MERGE_MESSAGE"
           /\ stream[i].id \in hubEvents)
          => /\ messages' = messages
             /\ casts' = casts
             /\ \A k \in 1..Len(lastIsNew') : ~lastIsNew'[k]]_vars

\* the merge of CastAdd1 was applied, and applied again after a crash
C8_Witness ==
    /\ Len(stream) = 1 /\ crashes = 1 /\ applyCount = 2
    /\ lastIsNew = <<FALSE>> /\ Len(casts) = 1

-----------------------------------------------------------------------------
(* Claims about the store rows and the reconciliation *)

AtMostOneRow ==
    /\ \A r1 \in messages : \A r2 \in messages :
           MessageKey(r1) = MessageKey(r2) => r1 = r2
    /\ \A i \in 1..Len(casts) : \A j \in 1..Len(casts) :
           MessageKey(casts[i]) = MessageKey(casts[j]) => i = j

DeletedStaysDeleted ==
    /\ \A r \in messages : RowState(r) = "deleted" =>
           \A r2 \in messages' : MessageKey(r2) = MessageKey(r) => RowState(r2) = "deleted"
    /\ \A i \in 1..Len(casts) : casts[i].deleted =>
           \A j \in 1..Len(casts') :
               MessageKey(casts'[j]) = MessageKey(casts[i]) => casts'[j].deleted

\* C9: after any merge, prune and revoke events and reconciliation repairs the
\* store holds at most one row per (fid, hash), in the messages table and in
\* the casts table made from it, and a row once deleted is never created again
C9_OneRowDeletedForGood == []AtMostOneRow /\ [][DeletedStaysDeleted]_vars

\* CastAdd1 was repaired as missing by a reconciliation and removed by the
\* stream: its rows are deleted
C9_Witness ==
    /\ \E i \in 1..Len(onHubMessageCalls) :
           onHubMessageCalls[i].message = CastAdd1 /\ onHubMessageCalls[i].missingInDb
    /\ \E r \in messages : RowState(r) = "deleted" /\ r.hash = "h1"
    /\ Len(casts) = 1 /\ casts[1].deleted

Count(calls, P(_)) == Cardinality({i \in 1..Len(calls) : P(calls[i])})

\* C10: when reconcileMessagesForFid returns, every message of H \ D was
\* reported once through onHubMessage with missingInDb, every message of
\* D \ H once through onDbMessage with missingInHub, and no message of H n D
\* with either flag, H and D being the sets the run fetched
C10_ReconciliationComplete ==
    rPc = "returned" =>
        /\ \A m \in rHub :
               LET MissingCall(c) == c.message = m /\ c.missingInDb
               IN  Count(onHubMessageCalls, MissingCall) =
                       IF MessageKey(m) \in Keys(rDb) THEN 0 ELSE 1
        /\ \A r \in rDb :
               LET MissingCall(c) == MessageKey(c.message) = MessageKey(r) /\ c.missingInHub
               IN  Count(onDbMessageCalls, MissingCall) =
                       IF MessageKey(r) \in Keys(rHub) THEN 0 ELSE 1
        /\ \A i \in 1..Len(onHubMessageCalls) :
               onHubMessageCalls[i].missingInDb =>
                   onHubMessageCalls[i].message \in rHub
        /\ \A i \in 1..Len(onDbMessageCalls) :
               onDbMessageCalls[i].missingInHub =>
                   onDbMessageCalls[i].message \in rDb

\* a run that returned with H \ D, D \ H and H n D all non-empty
C10_Witness ==
    /\ rPc = "returned"
    /\ Keys(rHub) \ Keys(rDb) # {}
    /\ Keys(rDb) \ Keys(rHub) # {}
    /\ Keys(rHub) \cap Keys(rDb) # {}

-----------------------------------------------------------------------------
(* Claims about the username-proof reconciliation *)

\* the identity of a proof: name, owner, fid and type, not the timestamp
SameIdentity(p, q) ==
    p.name = q.name /\ p.owner = q.owner /\ p.fid = q.fid /\ p.type = q.type

\* the Hub proofs of a type that lie within the range, in Hub result order
HubAccepted(type) ==
    LET Accepted(p) ==
            /\ p.type = type
            /\ startDate.defined => p.timestamp * 1000 >= startDate.val
            /\ stopDate.defined => p.timestamp * 1000 <= stopDate.val
    IN  SelectSeq(hubProofsOfFid, Accepted)

\* the latest-wins map the run built for a type (empty when it built none)
QueriedMap(type) ==
    IF \E i \in 1..Len(pQueried) : pQueried[i].type = type
      THEN pQueried[CHOOSE i \in 1..Len(pQueried) : pQueried[i].type = type].map
      ELSE <<>>

HubCallsOf(type) == LET OfType(c) == c.type = type IN SelectSeq(onHubProofCalls, OfType)
DbCallsOf(type) == LET OfType(c) == c.type = type IN SelectSeq(onDbProofCalls, OfType)

\* the call went through every proof type and returned
ProofsReturned == pPc = "returned" /\ ~pLogged

\* C11: in a run that returned, for each proof type onHubProof was called
\* exactly once for each Hub proof passing the type and time filter, in Hub
\* result order, with missingInDb true exactly when no proof of the
\* latest-wins map has the same (name, owner, fid, type); a store proof that
\* differs only in timestamp counts as the same identity
C11_HubPassReportsMissingInDb ==
    ProofsReturned =>
        \A type \in Range(TypesOf(pArgs)) :
            LET calls == HubCallsOf(type)
                expected == HubAccepted(type)
                map == QueriedMap(type)
            IN  /\ Len(calls) = Len(expected)
                /\ \A i \in 1..Len(calls) :
                       /\ calls[i].proof = expected[i]
                       /\ calls[i].missingInDb =
                              ~\E j \in 1..Len(map) : SameIdentity(map[j].proof, expected[i])

\* a Hub proof found in the store under another timestamp, and one missing
C11_Witness ==
    /\ ProofsReturned
    /\ \E i \in 1..Len(onHubProofCalls) :
           /\ ~onHubProofCalls[i].missingInDb
           /\ \E j \in 1..Len(QueriedMap(USERNAME_TYPE_FNAME)) :
                  /\ SameIdentity(QueriedMap(USERNAME_TYPE_FNAME)[j].proof,
                                  onHubProofCalls[i].proof)
                  /\ QueriedMap(USERNAME_TYPE_FNAME)[j].proof.timestamp
                         # onHubProofCalls[i].proof.timestamp
    /\ \E i \in 1..Len(onHubProofCalls) :
           onHubProofCalls[i].missingInDb
               /\ onHubProofCalls[i].type = USERNAME_TYPE_FNAME

Identity(p) == <<p.name, p.owner, p.fid, p.type>>
Identities(proofs) == {Identity(proofs[i]) : i \in 1..Len(proofs)}

\* C12: in a run that returned with onDbProof supplied, for each proof type,
\* whatever the Hub result set H (empty included), each distinct identity of
\* the store set D was reported through onDbProof exactly once, with
\* missingInHub true exactly when the identity is absent from H
C12_StorePassReportsMissingInHub ==
    (ProofsReturned /\ pArgs.onDbProof) =>
        \A type \in Range(TypesOf(pArgs)) :
            LET D == QueryDbProofs(usernames, type, startDate, stopDate)
                H == HubAccepted(type)
                calls == DbCallsOf(type)
            IN  \A id \in Identities(D) :
                    /\ Cardinality({i \in 1..Len(calls) : Identity(calls[i].proof) = id}) = 1
                    /\ \A i \in 1..Len(calls) :
                           Identity(calls[i].proof) = id =>
                               calls[i].missingInHub = (id \notin Identities(H))

\* C13: of the store rows that share one identity, the latest-wins map keeps
\* the one with the greatest timestamp, in every row order and for every
\* timestamp, 0 included
C13_LatestWinsKeepsGreatest ==
    \A i \in 1..Len(pQueried) :
        \A k \in 1..Len(pQueried[i].proofs) :
            \E j \in 1..Len(pQueried[i].map) :
                /\ SameIdentity(pQueried[i].map[j].proof, pQueried[i].proofs[k])
                /\ pQueried[i].map[j].proof.timestamp >= pQueried[i].proofs[k].timestamp

NoReportOf(type) ==
    /\ ~\E j \in 1..Len(pQueried) : pQueried[j].type = type
    /\ HubCallsOf(type) = <<>>
    /\ DbCallsOf(type) = <<>>

\* C14: when the Hub fetch of a proof type fails, the call fails with the
\* fetch error, the store is not queried and no callback is invoked for that
\* type, and the types later in the list are not processed
C14_HubFetchFailureSurfaces ==
    \A i \in 1..Len(pFetched) :
        pFetched[i].failed =>
            /\ pPc = "failed"
            /\ pError = "Unable to get username proofs"
            /\ i = Len(pFetched)
            /\ NoReportOf(pFetched[i].type)
            /\ \A type \in Range(pTypes) : NoReportOf(type)

\* the fetch of the first type failed while the Hub holds proofs of the next
C14_Witness ==
    /\ Len(pFetched) = 1 /\ pFetched[1].failed
    /\ pTypes = <<USERNAME_TYPE_ENS_L1>>
    /\ \E i \in 1..Len(hubProofsOfFid) : hubProofsOfFid[i].type = USERNAME_TYPE_ENS_L1
    /\ usernames # <<>>

\* the bound was given and fromFarcasterTime cannot convert it
Unconvertible(timestamp) ==
    timestamp.defined /\ FromFarcasterTime(timestamp.val).isErr

\* C15: a call whose start or stop timestamp cannot be converted logs the
\* invalid range and returns without throwing: no Hub fetch, no store query
\* and no callback for any proof type
C15_InvalidRangeSkipped ==
    (/\ pPc # "idle"
     /\ Unconvertible(pArgs.startTimestamp) \/ Unconvertible(pArgs.stopTimestamp))
        => /\ pPc = "returned"
           /\ pLogged
           /\ pError = "none"
           /\ pFetched = <<>>
           /\ pQueried = <<>>
           /\ onHubProofCalls = <<>>
           /\ onDbProofCalls = <<>>

\* a valid start with an unconvertible stop, the Hub holding proofs
C15_Witness ==
    /\ pPc = "returned" /\ pLogged
    /\ TruthyTime(pArgs.startTimestamp) /\ ~Unconvertible(pArgs.startTimestamp)
    /\ Unconvertible(pArgs.stopTimestamp)
    /\ hubProofsOfFid # <<>>

\* the store holds a live row of the proof with the very same timestamp
StoredWithSameTimestamp(proof) ==
    \E k \in 1..Len(usernames) :
        /\ usernames[k].username = proof.name
        /\ usernames[k].custodyAddress = proof.owner
        /\ usernames[k].fid = proof.fid
        /\ usernames[k].proofTimestamp = proof.timestamp * 1000

\* C16: the store-side filter accepts every timestamp the Hub-side filter
\* accepts (it is the Hub-side filter padded by one second on both bounds),
\* so an fname proof held on both sides with the same timestamp, also one
\* equal to start or stop, is never reported missingInDb
C16_StoreFilterCoversHubFilter ==
    \A i \in 1..Len(onHubProofCalls) :
        (/\ onHubProofCalls[i].type = USERNAME_TYPE_FNAME
         /\ StoredWithSameTimestamp(onHubProofCalls[i].proof))
            => ~onHubProofCalls[i].missingInDb

-----------------------------------------------------------------------------
(* Claims about shards, reconcile tasks and on-chain events *)

\* C17: unsharded (totalShards = 0), subscriber and consumer use the stream
\* key "all" and every Hub event received is appended; with totalShards = n > 0
\* and shardIndex = i both use the key of shard i and the stream holds, in
\* order, exactly the received events whose fid mod n = i
C17_ShardOwnership ==
    /\ SubscriberKey = ConsumerKey
    /\ totalShards = 0 => SubscriberKey = "all" /\ stream = received
    /\ totalShards > 0 =>
           LET OfShard(event) == EventFid(event) % totalShards = shardIndex
           IN  /\ SubscriberKey = ToString(shardIndex)
               /\ stream = SelectSeq(received, OfShard)

\* totalShards = 2, shardIndex = 0, the events of fids 1..4 received: those of
\* fids 2 and 4 are in the stream
C17_Witness ==
    /\ totalShards = 2 /\ shardIndex = 0
    /\ [i \in 1..Len(received) |-> EventFid(received[i])] = <<1, 2, 3, 4>>
    /\ [i \in 1..Len(stream) |-> EventFid(stream[i])] = <<2, 4>>

\* C18: when a reconcile task stops on a failure for one fid, every other fid
\* of its batch has been reconciled in that run
C18_FailureDoesNotBlockOtherFids ==
    rPc = "failed" =>
        \A k \in 1..Len(rFids) : k # rIdx => k < rIdx

\* the on-chain events delivered with a recognised body: processHubEvent
\* succeeded for their entry
DeliveredOnChain ==
    {stream[i].onChainEvent : i \in {j \in handled :
        /\ stream[j].type = "MERGE_ON_CHAIN_EVENT"
        /\ stream[j].onChainEvent.body \in RecognisedBodies}}

\* C19: after any deliveries, redeliveries included, the onchain_events table
\* holds exactly one row per (chainId, txHash, logIndex) delivered with a
\* recognised body and no other row, so delivering a stored event again
\* leaves the table as it is
C19_OnChainAppendIfAbsent ==
    /\ \A oc \in DeliveredOnChain :
           Cardinality({k \in 1..Len(onchain_events) :
                            onchain_events[k] = OnChainRow(oc)}) = 1
    /\ \A k \in 1..Len(onchain_events) :
           \E oc \in DeliveredOnChain : onchain_events[k] = OnChainRow(oc)

\* the callback calls a step adds
NewHubCalls ==
    IF Len(onHubMessageCalls') = Len(onHubMessageCalls) + 1
      THEN {onHubMessageCalls'[Len(onHubMessageCalls')]} ELSE {}
NewDbCalls ==
    IF Len(onDbMessageCalls') = Len(onDbMessageCalls) + 1
      THEN {onDbMessageCalls'[Len(onDbMessageCalls')]} ELSE {}

\* the handleMissingMessage calls are the missingInDb reports, one each, in
\* order, with wasMissed = true
MissingRoutedToProcessor ==
    LET Missing(c) == c.missingInDb
        reports == SelectSeq(onHubMessageCalls, Missing)
    IN  missingMessageCalls =
            [i \in 1..Len(reports) |-> [message |-> reports[i].message, wasMissed |-> TRUE]]

\* a report of any other divergence leaves the store as it is
OtherDivergenceOnlyLogged ==
    /\ \A c \in NewHubCalls : ~c.missingInDb => UNCHANGED storeVars
    /\ \A c \in NewDbCalls : UNCHANGED storeVars

\* C20: reconcileFids passes each Hub message reported missingInDb to
\* handleMissingMessage, once, with wasMissed = true, and on a message reported
\* prunedInDb or revokedInDb, or a store message reported missingInHub, it
\* leaves the store unchanged
C20_MissingRepairedOthersLogged ==
    []MissingRoutedToProcessor /\ [][OtherDivergenceOnlyLogged]_vars

\* one fid with a message repaired, a revoked one and one missing in the Hub
C20_Witness ==
    /\ missingMessageCalls # <<>>
    /\ \E i \in 1..Len(onHubMessageCalls) : onHubMessageCalls[i].revokedInDb
    /\ \E i \in 1..Len(onDbMessageCalls) : onDbMessageCalls[i].missingInHub


-----------------------------------------------------------------------------
(* Claims about the ordering of the repair callbacks *)

\* the place of a proof type in the list the run goes through
TypeIndex(type) ==
    CHOOSE i \in 1..Len(TypesOf(pArgs)) : TypesOf(pArgs)[i] = type

\* the types of the callbacks invoked so far, of both kinds
CalledTypes ==
    {onHubProofCalls[i].type : i \in 1..Len(onHubProofCalls)}
        \cup {onDbProofCalls[i].type : i \in 1..Len(onDbProofCalls)}

CallbackFailed == pError \in {"onHubProof", "onDbProof"}

\* at most one callback is in flight, and a failed callback has ended the run
OneCallbackInFlight ==
    /\ inCallback <= 1
    /\ CallbackFailed => pPc = "failed" /\ inCallback = 0

\* a callback is invoked only while none is in flight and none has failed, for
\* a type no earlier in the list than every type called so far; onHubProof
\* only before any onDbProof of its type, onDbProof only after every Hub proof
\* of its type was handed to onHubProof
CallbacksInOrder ==
    /\ (onHubProofCalls' # onHubProofCalls \/ onDbProofCalls' # onDbProofCalls) =>
           /\ inCallback = 0
           /\ ~CallbackFailed
           /\ \A type \in CalledTypes : TypeIndex(type) <= TypeIndex(proofType)
    /\ onHubProofCalls' # onHubProofCalls =>
           /\ onHubProofCalls' = Append(onHubProofCalls, onHubProofCalls'[Len(onHubProofCalls')])
           /\ onHubProofCalls'[Len(onHubProofCalls')].type = proofType
           /\ DbCallsOf(proofType) = <<>>
           /\ onDbProofCalls' = onDbProofCalls
    /\ onDbProofCalls' # onDbProofCalls =>
           /\ onDbProofCalls' = Append(onDbProofCalls, onDbProofCalls'[Len(onDbProofCalls')])
           /\ onDbProofCalls'[Len(onDbProofCalls')].type = proofType
           /\ hubProofs = <<>>
           /\ Len(HubCallsOf(proofType)) = Len(HubAccepted(proofType))

\* C21: the repair callbacks run synchronously with the driving loop: at most
\* one callback is in flight at any time, for one proof type every onHubProof
\* call completes before the first onDbProof call, the proof types are
\* processed one after another in list order, and a callback that fails stops
\* the run so that no later callback is invoked
C21_CallbacksRunInSequence ==
    []OneCallbackInFlight /\ [][CallbacksInOrder]_vars

\* onDbProof failed for type fname while the Hub holds an ens proof still to
\* be reconciled
C21_Witness ==
    /\ pPc = "failed"
    /\ pError = "onDbProof"
    /\ onHubProofCalls # <<>>
    /\ pTypes = <<USERNAME_TYPE_ENS_L1>>
    /\ HubAccepted(USERNAME_TYPE_ENS_L1) # <<>>


-----------------------------------------------------------------------------
(* Claims about the proof type of store rows *)

\* C23: store rows are always mapped to proof type fname, so for type ens the
\* store-side set is empty whatever the store holds: every Hub proof of type
\* ens is reported with missingInDb = TRUE, and no store proof is ever
\* reported through onDbProof for type ens
C23_EnsNeverMatchesStore ==
    /\ \A i \in 1..Len(pQueried) :
           /\ \A j \in 1..Len(pQueried[i].proofs) :
                  pQueried[i].proofs[j].type = USERNAME_TYPE_FNAME
           /\ pQueried[i].type = USERNAME_TYPE_ENS_L1 =>
                  pQueried[i].proofs = <<>> /\ pQueried[i].map = <<>>
    /\ \A i \in 1..Len(onHubProofCalls) :
           onHubProofCalls[i].type = USERNAME_TYPE_ENS_L1 => onHubProofCalls[i].missingInDb
    /\ DbCallsOf(USERNAME_TYPE_ENS_L1) = <<>>
    /\ (ProofsReturned /\ USERNAME_TYPE_ENS_L1 \in Range(TypesOf(pArgs))) =>
           Len(HubCallsOf(USERNAME_TYPE_ENS_L1)) = Len(HubAccepted(USERNAME_TYPE_ENS_L1))

\* a run with onDbProof supplied returned after reporting an ens proof as
\* missing although the store holds a row of the same name and owner within
\* the range
C23_Witness ==
    /\ ProofsReturned
    /\ pArgs.onDbProof
    /\ \E i \in 1..Len(onHubProofCalls) :
           /\ onHubProofCalls[i].type = USERNAME_TYPE_ENS_L1
           /\ onHubProofCalls[i].missingInDb
           /\ \E j \in 1..Len(usernames) :
                  /\ usernames[j].username = onHubProofCalls[i].proof.name
                  /\ usernames[j].custodyAddress = onHubProofCalls[i].proof.owner
                  /\ DbTimeFilter(usernames[j], startDate, stopDate)


-----------------------------------------------------------------------------
(* Claims about the completion marker of a backfill *)

IsMarker(task) == task.name = "completionMarker"

\* a call that returned has enqueued its reconcile tasks and then one marker
\* carrying its start time; a call that failed has enqueued no marker
MarkerClosesCall ==
    /\ bfPc = "done" =>
           /\ Len(Enqueued) >= 1
           /\ Enqueued[Len(Enqueued)] = MarkerTask(startedAt)
           /\ \A i \in 1..(Len(Enqueued) - 1) : Enqueued[i].name = "reconcile"
           /\ Len(fids) > 0 => Len(Enqueued) = 2
    /\ bfPc = "failed" =>
           \A i \in 1..Len(Enqueued) : Enqueued[i].name = "reconcile"

\* the start time is the clock at the entry of the call, before any enqueue,
\* and stays; tasks once enqueued stay in the queue
MarkerTimeCapturedAtEntry ==
    /\ bfCalls' # bfCalls => startedAt' = now /\ backfillQueue' = backfillQueue
    /\ backfillQueue' # backfillQueue =>
           /\ startedAt' = startedAt
           /\ Len(backfillQueue') = Len(backfillQueue) + 1
           /\ SubSeq(backfillQueue', 1, Len(backfillQueue)) = backfillQueue
    /\ bfPc' = "failed" => backfillQueue' = backfillQueue

\* C22: every backfillFids call that returns normally, in the empty-fids and
\* in the non-empty-fids branch, enqueues exactly one completion marker, after
\* every reconcile task of the call, carrying the start time captured before
\* the first enqueue; a call that fails part-way through enqueueing leaves its
\* reconcile tasks in the queue without a completion marker
C22_OneMarkerAfterReconcileTasks ==
    []MarkerClosesCall /\ [][MarkerTimeCapturedAtEntry]_vars

\* a call of the empty-fids branch returned after several batches while the
\* clock had moved on since its entry
C22_Witness ==
    /\ bfPc = "done"
    /\ fids = <<>>
    /\ Len(Enqueued) >= 3
    /\ IsMarker(Enqueued[Len(Enqueued)])
    /\ now > startedAt


-----------------------------------------------------------------------------
(* Claims about start-up and shutdown *)

SubscriberWasStarted == hubSubscriber # "created"
ConsumerWasStarted == cState # "stopped"

\* the subscriber is started only after the migrations succeeded, the consumer
\* only after the start of the subscriber completed; after a failed migration
\* neither is started and nothing reaches the stream
StartInOrder ==
    /\ SubscriberWasStarted => migrated
    /\ ConsumerWasStarted => migrated /\ SubscriberWasStarted
    /\ appPc \in {"created", "migrating", "startSubscriber"} =>
           ~SubscriberWasStarted /\ ~ConsumerWasStarted
    /\ (appPc = "failed" /\ ~migrated) =>
           ~SubscriberWasStarted /\ ~ConsumerWasStarted /\ stream = <<>>

\* a failed start stays failed; the step that stops the subscriber changes
\* nothing else: not the stream, not the checkpoint, not the consumer, not the
\* store
StopOnlyStopsSubscriber ==
    /\ appPc = "failed" => appPc' = "failed"
    /\ (hubSubscriber = "started" /\ hubSubscriber' = "stopped") =>
           /\ stream' = stream
           /\ checkpoint' = checkpoint
           /\ cState' = cState
           /\ UNCHANGED <<batch, cur, inflight, storeVars, appPc, migrated>>
    /\ hubSubscriber = "stopped" => hubSubscriber' = "stopped" /\ stream' = stream

\* C24: App.start orders its steps: the store migrations complete
\* successfully before the subscriber is started, and the start of the
\* subscriber completes before the stream consumer is started; if the
\* migration fails, start fails and neither the subscriber nor the consumer is
\* ever started. App.stop stops only the subscriber and changes neither the
\* entries already appended to the stream nor the persisted checkpoint
C24_StartOrderAndStop ==
    []StartInOrder /\ [][StopOnlyStopsSubscriber]_vars

\* the subscriber was stopped while the consumer runs, with entries in the
\* stream past the persisted checkpoint
C24_Witness ==
    /\ hubSubscriber = "stopped"
    /\ ConsumerWasStarted
    /\ checkpoint >= 1
    /\ Len(stream) > checkpoint

====
